---------------------------- MODULE Spec2Model ----------------------------
(***************************************************************************)
(* A model of wordgenerator.py: the WordGenerator object (its components,  *)
(* starts, weighted, vowels attributes), its methods seed, split_word,     *)
(* _weighted_random_choice, _generate_word, generate, generate_word,       *)
(* __iter__, save and load, and the exceptions they raise.                 *)
(*                                                                         *)
(* A Python str is a sequence of one-character strings.  A Python dict,    *)
(* Counter or list is a record [kind, items]: kind names the Python type   *)
(* (it decides which operations raise), items is the content in stored     *)
(* (insertion) order.  An element of items is [k, c]: k is the key (a key  *)
(* segment in the start table, a (middle, next key) pair in a key's value  *)
(* collection), c is its count, and is 0 in a list, which holds no counts. *)
(* self.components is [kind, items] with elements [k, val], val being the  *)
(* value collection of key segment k.                                      *)
(***************************************************************************)
EXTENDS Integers, Sequences, FiniteSets, TLC

VARIABLES
    weighted,     \* self.weighted
    vowels,       \* self.vowels (self.regex is compiled from it)
    components,   \* self.components
    starts,       \* self.starts
    gen,          \* the live sequence returned by generate / __iter__
    pc,           \* position inside a pull of that sequence
    word,         \* _generate_word's local: the buffer
    current,      \* _generate_word's local: the current key segment
    drew,         \* whether the running call has consulted random
    op,           \* the last method called
    err,          \* the exception it raised, or "none"
    out,          \* the word it returned
    call,         \* the arguments of the last seed, generate or generate_word
                  \* (which sources were given, append, limit, the words fed)
    saved,        \* the document written by the last call, when it was save
    pick,         \* the last draw of random.uniform (recorded for SpecChoice)
    triplets,     \* the last result of a direct split_word call
    budget        \* how many more methods the caller will call

vars == <<weighted, vowels, components, starts, gen, pc, word, current,
          drew, op, call, err, out, saved, pick, triplets, budget>>

(***************************************************************************)
(* Bounds of the model.                                                    *)
(***************************************************************************)
MaxWordLen == 3     \* longest training item
MaxCorpus == 1      \* most items in one corpus (ExtraCorpora apart)
MaxCount == 2       \* largest count a seeded table may hold
MaxLimit == 3       \* largest length limit passed to generate
MaxN == 1           \* largest n passed to generate
MaxCalls == 2       \* most method calls made on the object after construction
MaxWalk == 6        \* longest buffer kept whole: a longer one is cut (see Kept)
DrawScale == 2      \* random.uniform's draws are modelled in units of 1/DrawScale
MaxChoices == 3     \* SpecChoice: most candidates in a collection
MaxWeight == 5      \* SpecChoice: largest count of a candidate

(***************************************************************************)
(* Strings.                                                                *)
(***************************************************************************)
MARKER == "~"

ENGLISH_VOWELS == {"a", "e", "i", "o", "u"}

Letters == {"a", "b"}

SeqsUpTo(S, n) == UNION {[1..k -> S] : k \in 0..n}

\* str.startswith(MARKER), str.endswith(MARKER)
startswith(s) == Len(s) > 0 /\ s[1] = MARKER

endswith(s) == Len(s) > 0 /\ s[Len(s)] = MARKER

\* str.strip(chars): drop every leading and trailing character of chars
RECURSIVE lstrip(_, _)
lstrip(s, chars) ==
    IF s /= <<>> /\ s[1] \in chars THEN lstrip(Tail(s), chars) ELSE s

RECURSIVE rstrip(_, _)
rstrip(s, chars) ==
    IF s /= <<>> /\ s[Len(s)] \in chars
    THEN rstrip(SubSeq(s, 1, Len(s) - 1), chars) ELSE s

strip(s, chars) == rstrip(lstrip(s, chars), chars)

\* str.lower() on the characters of the model
lowerChar(c) == IF c = "A" THEN "a" ELSE IF c = "B" THEN "b" ELSE c

lower(s) == [i \in 1..Len(s) |-> lowerChar(s[i])]

\* item.strip().lower() of seed's inner generator (strip() drops whitespace)
Normalise(item) == lower(strip(item, {" "}))

(***************************************************************************)
(* split_word: the regex ([V]+)([^V]+)(?=([V]+)) applied by findall to the *)
(* marker-padded word.                                                     *)
(***************************************************************************)
\* the end (exclusive) of the maximal run from i of characters whose
\* membership in V is inV
RECURSIVE RunEnd(_, _, _, _)
RunEnd(w, i, V, inV) ==
    IF i <= Len(w) /\ ((w[i] \in V) = inV) THEN RunEnd(w, i + 1, V, inV) ELSE i

\* a findall whose matches consume the trailing vowel run (no lookahead)
RECURSIVE FindAllConsuming(_, _, _)
FindAllConsuming(w, i, V) ==
    IF i > Len(w) THEN <<>>
    ELSE LET e1 == RunEnd(w, i, V, TRUE)
             e2 == RunEnd(w, e1, V, FALSE)
             e3 == RunEnd(w, e2, V, TRUE)
         IN IF e1 > i /\ e2 > e1 /\ e3 > e2
            THEN << <<SubSeq(w, i, e1 - 1), SubSeq(w, e1, e2 - 1),
                      SubSeq(w, e2, e3 - 1)>> >> \o FindAllConsuming(w, e3, V)
            ELSE FindAllConsuming(w, i + 1, V)

\* re.findall from position i: the leftmost match, then on from its end
RECURSIVE FindAll(_, _, _)
FindAll(w, i, V) ==
    IF i > Len(w) THEN <<>>
    ELSE LET e1 == RunEnd(w, i, V, TRUE)
             e2 == RunEnd(w, e1, V, FALSE)
             e3 == RunEnd(w, e2, V, TRUE)
         IN IF e1 > i /\ e2 > e1 /\ e3 > e2
            THEN << <<SubSeq(w, i, e1 - 1), SubSeq(w, e1, e2 - 1),
                      SubSeq(w, e2, e3 - 1)>> >> \o FindAll(w, e2, V)
            ELSE FindAll(w, i + 1, V)

\* split_word(word): the (key, (not_vowels, more_vowels)) pairs, V = self.vowels
split_word(w, V) ==
    LET segs == FindAll(<<MARKER>> \o w \o <<MARKER>>, 1, V)
    IN [i \in 1..Len(segs) |->
           [key |-> segs[i][1], value |-> <<segs[i][2], segs[i][3]>>]]


(***************************************************************************)
(* Python collections.  kind is "unset" (the attribute does not exist),    *)
(* "Counter", "dict", "list", or "strdict" (a dict whose values are        *)
(* strings, which dict() builds from a list of two-element sequences).     *)
(***************************************************************************)
Unset == [kind |-> "unset", items |-> <<>>]

Empty(kind) == [kind |-> kind, items |-> <<>>]

\* the position of key k in a collection's items, 0 when absent
IndexOf(items, k) ==
    IF \E i \in 1..Len(items) : items[i].k = k
    THEN CHOOSE i \in 1..Len(items) : items[i].k = k
    ELSE 0

Keys(items) == {items[i].k : i \in 1..Len(items)}

RECURSIVE Total(_)
Total(items) == IF items = <<>> THEN 0 ELSE items[1].c + Total(Tail(items))

\* an increment that leaves a count already held as it is
IncrementOnce(coll, k) ==
    LET i == IndexOf(coll.items, k)
    IN CASE coll.kind = "unset" -> [err |-> "AttributeError", val |-> coll]
         [] coll.kind = "list" -> [err |-> "TypeError", val |-> coll]
         [] coll.kind = "Counter" ->
              [err |-> "none",
               val |-> [coll EXCEPT !.items =
                           IF i = 0 THEN Append(@, [k |-> k, c |-> 1]) ELSE @]]
         [] coll.kind = "dict" ->
              IF i = 0 THEN [err |-> "KeyError", val |-> coll]
              ELSE [err |-> "none", val |-> coll]
         [] OTHER ->
              [err |-> IF i = 0 THEN "KeyError" ELSE "TypeError", val |-> coll]

\* coll[k] += 1, by the Python type of coll
Increment(coll, k) ==
    LET i == IndexOf(coll.items, k)
    IN CASE coll.kind = "unset" -> [err |-> "AttributeError", val |-> coll]
         [] coll.kind = "list" -> [err |-> "TypeError", val |-> coll]
         [] coll.kind = "Counter" ->
              [err |-> "none",
               val |-> [coll EXCEPT !.items =
                           IF i = 0 THEN Append(@, [k |-> k, c |-> 1])
                           ELSE [@ EXCEPT ![i].c = @ + 1]]]
         [] coll.kind = "dict" ->
              IF i = 0 THEN [err |-> "KeyError", val |-> coll]
              ELSE [err |-> "none",
                    val |-> [coll EXCEPT !.items = [@ EXCEPT ![i].c = @ + 1]]]
         [] OTHER ->   \* strdict: a missing key, or str + int
              [err |-> IF i = 0 THEN "KeyError" ELSE "TypeError", val |-> coll]

\* self.components[key][value] += 1; a defaultdict makes the missing Counter
IncrementComponent(co, key, value) ==
    LET i == IndexOf(co.items, key)
    IN CASE co.kind = "unset" -> [err |-> "AttributeError", val |-> co]
         [] i = 0 /\ co.kind = "defaultdict" ->
              [err |-> "none",
               val |-> [co EXCEPT !.items =
                           Append(@, [k |-> key,
                                      val |-> Increment(Empty("Counter"), value).val])]]
         [] i = 0 -> [err |-> "KeyError", val |-> co]
         [] OTHER ->
              LET r == Increment(co.items[i].val, value)
              IN [err |-> r.err,
                  val |-> [co EXCEPT !.items = [@ EXCEPT ![i].val = r.val]]]

\* dict(x)
DictOf(coll) ==
    CASE coll.kind = "unset" -> [err |-> "AttributeError", val |-> coll]
      [] coll.kind \in {"Counter", "dict"} ->
           [err |-> "none", val |-> [coll EXCEPT !.kind = "dict"]]
      [] coll.kind = "strdict" -> [err |-> "none", val |-> coll]
      [] OTHER ->   \* a list: every element must be a sequence of length 2
           IF \E i \in 1..Len(coll.items) : Len(coll.items[i].k) /= 2
           THEN [err |-> "ValueError", val |-> coll]
           ELSE IF coll.items = <<>>
           THEN [err |-> "none", val |-> Empty("dict")]
           ELSE [err |-> "none",
                 val |-> [kind |-> "strdict",
                          items |-> [i \in 1..Len(coll.items) |->
                                        [k |-> coll.items[i].k[1], c |-> 0]]]]

\* every key as many times as it was counted
RECURSIVE Elements(_)
Elements(items) ==
    IF items = <<>> THEN <<>>
    ELSE [i \in 1..items[1].c |-> [k |-> items[1].k, c |-> 0]]
         \o Elements(Tail(items))

\* a list that keeps the training frequencies as repeated elements
ListOfElements(coll) ==
    IF coll.kind \in {"unset", "list"}
    THEN [err |-> "AttributeError", val |-> coll]
    ELSE [err |-> "none",
          val |-> [kind |-> "list", items |-> Elements(coll.items)]]

\* list(x.keys())
ListOfKeys(coll) ==
    IF coll.kind \in {"unset", "list"}
    THEN [err |-> "AttributeError", val |-> coll]
    ELSE [err |-> "none",
          val |-> [kind |-> "list",
                   items |-> [i \in 1..Len(coll.items) |->
                                 [k |-> coll.items[i].k, c |-> 0]]]]

(***************************************************************************)
(* seed.                                                                   *)
(***************************************************************************)
\* an argument that is None, or a list of items
None == [given |-> FALSE, words |-> <<>>]

List(ws) == [given |-> TRUE, words |-> ws]

\* the truth value Python gives the argument
Truthy(x) == x.given /\ x.words /= <<>>

\* chain.from_iterable(split_word(word) for word in
\*     (item.strip().lower() for item in language if item))
RECURSIVE Pairs(_, _)
Pairs(language, V) ==
    IF language = <<>> THEN <<>>
    ELSE (IF language[1] = <<>> THEN <<>>
          ELSE split_word(Normalise(language[1]), V)) \o Pairs(Tail(language), V)

\* the for loop of seed: stops at the first exception, keeping what it did
RECURSIVE Accumulate(_, _, _)
Accumulate(pairs, st, co) ==
    IF pairs = <<>> THEN [err |-> "none", starts |-> st, components |-> co]
    ELSE LET key == pairs[1].key
             r1 == IF startswith(key) THEN Increment(st, key)
                   ELSE [err |-> "none", val |-> st]
             r2 == IncrementComponent(co, key, pairs[1].value)
         IN IF r1.err /= "none"
            THEN [err |-> r1.err, starts |-> st, components |-> co]
            ELSE IF r2.err /= "none"
            THEN [err |-> r2.err, starts |-> r1.val, components |-> co]
            ELSE Accumulate(Tail(pairs), r1.val, r2.val)

\* {key: f(value) for key, value in self.components.items()}
RECURSIVE MapValues(_, _)
MapValues(items, weightedFlag) ==
    IF items = <<>> THEN [err |-> "none", items |-> <<>>]
    ELSE LET r == IF weightedFlag THEN DictOf(items[1].val)
                  ELSE ListOfKeys(items[1].val)
             rest == MapValues(Tail(items), weightedFlag)
         IN IF r.err /= "none" THEN [err |-> r.err, items |-> <<>>]
            ELSE IF rest.err /= "none" THEN rest
            ELSE [err |-> "none",
                  items |-> <<[k |-> items[1].k, val |-> r.val]>> \o rest.items]

\* the conversion that ends a successful loop
Freeze(w, st, co) ==
    LET m == MapValues(co.items, w)
        s == IF w THEN DictOf(st) ELSE ListOfKeys(st)
        co1 == [kind |-> "dict", items |-> m.items]
    IN IF co.kind = "unset"
       THEN [err |-> "AttributeError", starts |-> st, components |-> co]
       ELSE IF m.err /= "none"
       THEN [err |-> m.err, starts |-> st, components |-> co]
       ELSE IF s.err /= "none"
       THEN [err |-> s.err, starts |-> st, components |-> co1]
       ELSE [err |-> "none", starts |-> s.val, components |-> co1]

\* seed with a language and no dictionary
SeedLanguage(language, V, append, w, st, co) ==
    LET V1 == V \cup {MARKER}
        st0 == IF append THEN st ELSE Empty("Counter")
        co0 == IF append THEN co ELSE Empty("defaultdict")
        loop == Accumulate(Pairs(language, V1), st0, co0)
        r == IF loop.err /= "none" THEN loop
             ELSE Freeze(w, loop.starts, loop.components)
    IN [err |-> r.err, vowels |-> V1, starts |-> r.starts,
        components |-> r.components]

\* seed(dictionary, language, vowels, append) on the state (w, st, co)
seed(dictionary, language, V, append, w, st, co) ==
    IF Truthy(dictionary) /\ ~Truthy(language)
    THEN \* open(dictionary) or its TypeError: both end in seed(language=...)
         SeedLanguage(dictionary.words, ENGLISH_VOWELS, FALSE, w, st, co)
    ELSE IF Truthy(language) /\ ~Truthy(dictionary)
    THEN SeedLanguage(language.words, V, append, w, st, co)
    ELSE [err |-> "ValueError", vowels |-> V \cup {MARKER},
          starts |-> IF append THEN st ELSE Empty("Counter"),
          components |-> IF append THEN co ELSE Empty("defaultdict")]

(***************************************************************************)
(* _weighted_random_choice.  d is what the random module returns: for      *)
(* random.uniform(0, max) the draw in units of 1/DrawScale, with           *)
(* 0 <= d/DrawScale < max (uniform(0, max) is max * random(), and          *)
(* random() < 1), for                                                      *)
(* random.choice the position drawn.  The result is [err, none, val]:      *)
(* none says that the call returned no string or tuple (None, or the 0 a   *)
(* Counter gives for a missing key).                                       *)
(***************************************************************************)
Draws(choices, w) ==
    IF w THEN (IF Total(choices.items) > 0
               THEN 0..(DrawScale * Total(choices.items) - 1) ELSE {0})
    ELSE (IF choices.items /= <<>> THEN 1..Len(choices.items) ELSE {0})

\* current after the first n candidates of the for loop
RECURSIVE Running(_, _)
Running(items, n) == IF n = 0 THEN 0 ELSE Running(items, n - 1) + items[n].c

\* a loop test that also stops on a running sum equal to the draw
ExceedsOrEquals(cur, d) == DrawScale * cur >= d

\* the if of the for loop: current > pick
Exceeds(cur, d) == DrawScale * cur > d

\* whether the call gets as far as asking the random module
Drawn(choices, w) ==
    IF w THEN choices.kind \in {"Counter", "dict"}
    ELSE choices.kind /= "unset" /\ choices.items /= <<>>

_weighted_random_choice(choices, w, d) ==
    LET items == choices.items
        hits == {i \in 1..Len(items) : Exceeds(Running(items, i), d)}
        first == CHOOSE i \in hits : \A j \in hits : i <= j
        fail(e) == [err |-> e, none |-> TRUE, val |-> <<>>]
    IN IF choices.kind = "unset" THEN fail("AttributeError")
       ELSE IF w
       THEN CASE choices.kind = "list" -> fail("AttributeError")
              [] choices.kind = "strdict" /\ items /= <<>> -> fail("TypeError")
              [] hits = {} -> fail("none")
              [] OTHER -> [err |-> "none", none |-> FALSE, val |-> items[first].k]
       ELSE CASE items = <<>> -> fail("IndexError")
              [] choices.kind = "list" ->
                   [err |-> "none", none |-> FALSE, val |-> items[d].k]
              [] choices.kind = "Counter" -> fail("none")
              [] OTHER -> fail("KeyError")

(***************************************************************************)
(* save and load.  A document is [wellformed, has, weighted, starts,       *)
(* components]: has is the set of top-level fields present; starts is      *)
(* [kind, items] with kind "object" or "array"; components is a sequence   *)
(* of [k, entries], an entry being [v, c, len]: the JSON array             *)
(* [[middle, next], count] has len = 2, and load unpacks exactly two.      *)
(***************************************************************************)
NoDoc == [present |-> FALSE, wellformed |-> FALSE, has |-> {},
          weighted |-> FALSE, starts |-> Empty("object"), components |-> <<>>]

\* list(values.items()) as json.dump writes it
Entries(val) ==
    [i \in 1..Len(val.items) |->
        [v |-> val.items[i].k, c |-> val.items[i].c, len |-> 2]]

\* save(file): the exception raised and the document written
save(w, st, co) ==
    LET bad == co.kind = "unset"
                 \/ \E i \in 1..Len(co.items) : co.items[i].val.kind \in {"list", "unset"}
        doc == [present |-> TRUE, wellformed |-> TRUE,
                has |-> {"weighted", "starts", "components"},
                weighted |-> w,
                starts |-> [kind |-> CASE st.kind = "list" -> "array"
                                       [] st.kind = "strdict" -> "strobject"
                                       [] OTHER -> "object",
                            items |-> st.items],
                components |-> [i \in 1..Len(co.items) |->
                                   [k |-> co.items[i].k,
                                    entries |-> Entries(co.items[i].val)]]]
    IN IF bad \/ st.kind = "unset"
       THEN [err |-> "AttributeError", doc |-> NoDoc]
       ELSE [err |-> "none", doc |-> doc]

\* {tuple(value): count for value, count in values}: a repeated value keeps
\* its first place and takes the last count
RECURSIVE ValueDict(_)
ValueDict(entries) ==
    IF entries = <<>> THEN <<>>
    ELSE LET n == Len(entries)
             before == ValueDict(SubSeq(entries, 1, n - 1))
             i == IndexOf(before, entries[n].v)
         IN IF i = 0 THEN Append(before, [k |-> entries[n].v, c |-> entries[n].c])
            ELSE [before EXCEPT ![i].c = entries[n].c]

\* load(file) on the state (w, st, co): the exception raised and the state left
load(doc, w, st, co) ==
    LET unpack == \A i \in 1..Len(doc.components) :
                     \A j \in 1..Len(doc.components[i].entries) :
                        doc.components[i].entries[j].len = 2
        co1 == [kind |-> "dict",
                items |-> [i \in 1..Len(doc.components) |->
                              [k |-> doc.components[i].k,
                               val |-> [kind |-> "dict",
                                        items |-> ValueDict(doc.components[i].entries)]]]]
        st1 == [kind |-> CASE doc.starts.kind = "array" -> "list"
                           [] doc.starts.kind = "strobject" -> "strdict"
                           [] OTHER -> "dict",
                items |-> doc.starts.items]
        res(e, w2, st2, co2) ==
            [err |-> e, weighted |-> w2, starts |-> st2, components |-> co2]
    IN IF ~doc.wellformed THEN res("JSONDecodeError", w, st, co)
       ELSE IF "components" \notin doc.has THEN res("KeyError", w, st, co)
       ELSE IF ~unpack THEN res("ValueError", w, st, co)
       ELSE IF "starts" \notin doc.has THEN res("KeyError", w, st, co1)
       ELSE IF "weighted" \notin doc.has THEN res("KeyError", w, st1, co1)
       ELSE res("none", doc.weighted, st1, co1)

(***************************************************************************)
(* The inputs of the calls.                                                *)
(***************************************************************************)
VowelSets == {ENGLISH_VOWELS, {"b"}}

Words == SeqsUpTo(Letters, MaxWordLen)

\* items that strip() and lower() change
Decorated == {<<" ">>, <<" ", "B", "a">>, <<"A", "b", " ">>}

RawItems == Words \cup Decorated

\* longer corpora: a repeated word, two values under one key, a cycle
ExtraCorpora ==
    {<< <<"a", "b">>, <<"a", "b">> >>,
     << <<"b", "a">>, <<"b", "b">> >>,
     << <<"b", "a", "b", "a", "b">> >>}

Corpora == SeqsUpTo(RawItems, MaxCorpus) \cup ExtraCorpora

SeedArgs ==
    {[dictionary |-> None, language |-> List(c)] : c \in Corpora}
    \cup {[dictionary |-> List(c), language |-> None] : c \in Corpora}
    \cup {[dictionary |-> None, language |-> None]}
    \cup {[dictionary |-> List(c), language |-> List(c)] : c \in SeqsUpTo(RawItems, 1)}

\* limit: None, an int, or a (minimum, maximum) tuple
NoLimit == [type |-> "None", a |-> 0, b |-> 0]

LimitArgs ==
    {NoLimit}
    \cup {[type |-> "int", a |-> m, b |-> 0] : m \in 0..MaxLimit}
    \cup {[type |-> "tuple", a |-> m, b |-> n] :
             m \in 0..MaxLimit, n \in 1..MaxLimit}

\* n: None (a = 0, none) or an int
NArgs == {[none |-> TRUE, a |-> 0]} \cup {[none |-> FALSE, a |-> n] : n \in 0..MaxN}

\* the largest count held anywhere in the tables
CountsWithin(st, co, n) ==
    /\ \A i \in 1..Len(st.items) : st.items[i].c <= n
    /\ \A i \in 1..Len(co.items) :
          \A j \in 1..Len(co.items[i].val.items) : co.items[i].val.items[j].c <= n

(***************************************************************************)
(* Documents that load may be given besides the one just saved: saved      *)
(* models, and the same with a field dropped, the flag changed, the start  *)
(* table as a plain list, an entry of three elements, or cut short.        *)
(***************************************************************************)
\* one element [[middle, next], count] of a key's array
Entry(middle, next, count) == [v |-> <<middle, next>>, c |-> count, len |-> 2]

Document(startItems, comps) ==
    [present |-> TRUE, wellformed |-> TRUE,
     has |-> {"weighted", "starts", "components"}, weighted |-> TRUE,
     starts |-> [kind |-> "object", items |-> startItems],
     components |-> comps]

\* what save writes for the weighted model of ["babab"]
DocA ==
    Document(<<[k |-> <<MARKER>>, c |-> 1]>>,
             <<[k |-> <<MARKER>>, entries |-> <<Entry(<<"b">>, <<"a">>, 1)>>],
               [k |-> <<"a">>,
                entries |-> <<Entry(<<"b">>, <<"a">>, 1),
                              Entry(<<"b">>, <<MARKER>>, 1)>>]>>)

\* what save writes for the weighted model of ["bb"]
DocB ==
    Document(<<[k |-> <<MARKER>>, c |-> 1]>>,
             <<[k |-> <<MARKER>>,
                entries |-> <<Entry(<<"b", "b">>, <<MARKER>>, 1)>>]>>)

ExternalDocs ==
    {DocA, DocB,
     [DocA EXCEPT !.has = @ \ {"starts"}],
     [DocB EXCEPT !.has = @ \ {"weighted"}],
     [DocB EXCEPT !.has = @ \ {"components"}],
     [DocA EXCEPT !.weighted = FALSE],
     [DocB EXCEPT !.weighted = FALSE,
                  !.starts = [kind |-> "array", items |-> <<[k |-> <<MARKER>>, c |-> 0]>>]],
     [DocB EXCEPT !.starts = [kind |-> "array", items |-> <<[k |-> <<MARKER>>, c |-> 0]>>]],
     [DocB EXCEPT !.starts = Empty("object")],
     [DocB EXCEPT !.components[1].entries[1].len = 3],
     [DocA EXCEPT !.wellformed = FALSE]}

(***************************************************************************)
(* The object after WordGenerator(dictionary, language, weighted, vowels): *)
(* __init__ sets marker and weighted and, if dictionary or language is     *)
(* true, calls seed; an exception of seed leaves no object.                *)
(***************************************************************************)
NoCall == [dictionary |-> FALSE, language |-> FALSE, append |-> FALSE,
           limit |-> NoLimit, words |-> <<>>]

Limited(limit) == [NoCall EXCEPT !.limit = limit]

Seeded(args, append) ==
    [dictionary |-> args.dictionary.given, language |-> args.language.given,
     append |-> append, limit |-> NoLimit,
     words |-> IF args.language.given THEN args.language.words
               ELSE args.dictionary.words]

NoGen == [active |-> FALSE, mode |-> "none", minimum |-> 0, maximum |-> 0,
          nomax |-> FALSE, bounded |-> FALSE, remaining |-> 0]

\* the rest of the state when __init__ returns
Constructed ==
    /\ gen = NoGen
    /\ pc = "idle"
    /\ word = <<>>
    /\ current = <<>>
    /\ drew = FALSE
    /\ op = "__init__"
    /\ err = "none"
    /\ out = <<>>
    /\ saved = NoDoc
    /\ pick = 0
    /\ triplets = <<>>

\* neither dictionary nor language: no attribute but marker and weighted
Unseeded ==
    /\ weighted \in BOOLEAN
    /\ vowels = {}
    /\ components = Unset
    /\ starts = Unset
    /\ call = NoCall
    /\ Constructed

InitUnseeded == Unseeded /\ budget = MaxCalls

\* a dictionary or a language: the object seed leaves
ConstructedFrom(sources, vowelSets) ==
    /\ weighted \in BOOLEAN
    /\ \E args \in sources, V \in vowelSets :
          \E r \in {seed(args.dictionary, args.language, V, FALSE,
                         weighted, Unset, Unset)} :
             /\ Truthy(args.dictionary) \/ Truthy(args.language)
             /\ r.err = "none"
             /\ vowels = r.vowels
             /\ components = r.components
             /\ starts = r.starts
             /\ call = Seeded(args, FALSE)
    /\ Constructed

InitSeeded == ConstructedFrom(SeedArgs, VowelSets) /\ budget = MaxCalls

Init == InitUnseeded \/ InitSeeded

\* a method may be called: no call is running, no sequence is being consumed
Callable == pc = "idle" /\ ~gen.active /\ budget > 0

Harness == <<pick, triplets>>

Walk == <<word, current, drew>>

(***************************************************************************)
(* seed, save, load.                                                       *)
(***************************************************************************)
Seed(args, V, append) ==
    /\ Callable
    /\ budget' = budget - 1
    /\ \E r \in {seed(args.dictionary, args.language, V, append,
                      weighted, starts, components)} :
       /\ CountsWithin(r.starts, r.components, MaxCount)
       /\ vowels' = r.vowels
       /\ starts' = r.starts
       /\ components' = r.components
       /\ op' = "seed"
       /\ call' = Seeded(args, append)
       /\ err' = r.err
       /\ out' = <<>>
       /\ saved' = NoDoc
       /\ UNCHANGED <<weighted, gen, pc, Walk, Harness>>

Save ==
    /\ Callable
    /\ budget' = budget - 1
    /\ \E r \in {save(weighted, starts, components)} :
       /\ op' = "save"
       /\ call' = NoCall
       /\ err' = r.err
       /\ out' = <<>>
       /\ saved' = r.doc
       /\ UNCHANGED <<weighted, vowels, components, starts, gen, pc, Walk, Harness>>

\* load of the document just saved, or of one of ExternalDocs
Load(doc) ==
    /\ Callable
    /\ budget' = budget - 1
    /\ doc.present
    /\ \E r \in {load(doc, weighted, starts, components)} :
       /\ weighted' = r.weighted
       /\ starts' = r.starts
       /\ components' = r.components
       /\ op' = "load"
       /\ call' = NoCall
       /\ err' = r.err
       /\ out' = <<>>
       /\ saved' = IF doc = saved THEN saved ELSE NoDoc
       /\ UNCHANGED <<vowels, gen, pc, Walk, Harness>>

(***************************************************************************)
(* generate, generate_word, __iter__ and the pulls of their sequences.     *)
(* A pull runs _generate_word (BeginWord, then one WalkStep per iteration  *)
(* of its while loop) until a word passes the filter of generate.          *)
(***************************************************************************)
\* generate's try/except: minimum, maximum = limit
Unpack(limit) ==
    CASE limit.type = "tuple" -> [minimum |-> limit.a, maximum |-> limit.b, nomax |-> FALSE]
      [] limit.type = "int" -> [minimum |-> 0, maximum |-> limit.a, nomax |-> FALSE]
      [] OTHER -> [minimum |-> 0, maximum |-> 0, nomax |-> TRUE]

\* the sequence generate(limit, n) returns: nothing runs until it is pulled
Sequence(mode, limit, n) ==
    LET u == Unpack(limit)
    IN [active |-> TRUE, mode |-> mode, minimum |-> u.minimum,
        maximum |-> u.maximum, nomax |-> u.nomax,
        bounded |-> ~n.none, remaining |-> n.a]

Generate(limit, n) ==
    /\ Callable
    /\ budget' = budget - 1
    /\ gen' = Sequence("generate", limit, n)
    /\ op' = "generate"
    /\ call' = Limited(limit)
    /\ err' = "none"
    /\ out' = <<>>
    /\ saved' = NoDoc
    /\ UNCHANGED <<weighted, vowels, components, starts, pc, Walk, Harness>>

\* iter(generator): the unfiltered, endless sequence of __iter__
Iter ==
    /\ Callable
    /\ budget' = budget - 1
    /\ gen' = [NoGen EXCEPT !.active = TRUE, !.mode = "iter"]
    /\ op' = "__iter__"
    /\ call' = NoCall
    /\ err' = "none"
    /\ out' = <<>>
    /\ saved' = NoDoc
    /\ UNCHANGED <<weighted, vowels, components, starts, pc, Walk, Harness>>

\* generate_word(limit): next(self.generate(limit))
GenerateWord(limit) ==
    /\ Callable
    /\ budget' = budget - 1
    /\ gen' = Sequence("generate_word", limit, [none |-> TRUE, a |-> 0])
    /\ pc' = "begin"
    /\ op' = "generate_word"
    /\ call' = Limited(limit)
    /\ err' = "none"
    /\ out' = <<>>
    /\ saved' = NoDoc
    /\ word' = <<>>
    /\ current' = <<>>
    /\ drew' = FALSE
    /\ UNCHANGED <<weighted, vowels, components, starts, Harness>>

\* the end of a pull: an exception e ends the sequence, and so does the one
\* word of generate_word; islice counts the words it passes on
Return(e, w) ==
    /\ pc' = "idle"
    /\ err' = e
    /\ out' = w
    /\ word' = <<>>
    /\ current' = <<>>
    /\ gen' = IF e /= "none" \/ gen.mode = "generate_word" THEN NoGen
              ELSE IF gen.bounded THEN [gen EXCEPT !.remaining = @ - 1]
              ELSE gen

\* next() on the live sequence: islice stops after n words
Pull ==
    /\ gen.active /\ pc = "idle"
    /\ op' = "next"
    /\ drew' = FALSE
    /\ IF gen.bounded /\ gen.remaining = 0
       THEN Return("StopIteration", <<>>)
       ELSE /\ pc' = "begin"
            /\ err' = "none"
            /\ out' = <<>>
            /\ UNCHANGED <<gen, word, current>>
    /\ UNCHANGED <<weighted, vowels, components, starts, call, saved, Harness, budget>>

\* the consumer stops pulling and lets the sequence go
Drop ==
    /\ gen.active /\ pc = "idle"
    /\ gen' = NoGen
    /\ UNCHANGED <<weighted, vowels, components, starts, pc, Walk, op, call,
                   err, out, saved, Harness, budget>>

\* _generate_word up to the loop: the check of self.components, the start
BeginWord ==
    /\ pc = "begin"
    /\ IF components.kind = "unset"
       THEN Return("AttributeError", <<>>) /\ UNCHANGED drew
       ELSE IF components.items = <<>>
       THEN Return("EmptyDictionaryError", <<>>) /\ UNCHANGED drew
       ELSE \E d \in Draws(starts, weighted) :
               \E r \in {_weighted_random_choice(starts, weighted, d)} :
                  /\ drew' = (drew \/ Drawn(starts, weighted))
                  /\ IF r.err /= "none" THEN Return(r.err, <<>>)
                     ELSE IF r.none THEN Return("TypeError", <<>>)
                     ELSE /\ word' = <<>>
                          /\ current' = r.val
                          /\ pc' = "loop"
                          /\ UNCHANGED <<gen, err, out>>
    /\ UNCHANGED <<weighted, vowels, components, starts, op, call, saved, Harness,
                   budget>>

\* a filter that lets a word of exactly the maximum length through
FilterUpToMaximum(w) ==
    IF gen.mode = "iter" THEN "yield"
    ELSE IF ~(gen.minimum < Len(w)) THEN "discard"
    ELSE IF gen.nomax THEN "TypeError"
    ELSE IF Len(w) <= gen.maximum THEN "yield"
    ELSE "discard"

\* the filter of generate on a word _generate_word returned:
\* minimum < len(item) < maximum, which raises TypeError when maximum is None
Filter(w) ==
    IF gen.mode = "iter" THEN "yield"
    ELSE IF ~(gen.minimum < Len(w)) THEN "discard"
    ELSE IF gen.nomax THEN "TypeError"
    ELSE IF Len(w) < gen.maximum THEN "yield"
    ELSE "discard"

\* _generate_word returned w: it is yielded, or discarded and another word begun
Deliver(w) ==
    CASE Filter(w) = "yield" -> Return("none", w)
      [] Filter(w) = "TypeError" -> Return("TypeError", <<>>)
      [] OTHER -> /\ pc' = "begin"
                  /\ word' = <<>>
                  /\ current' = <<>>
                  /\ UNCHANGED <<gen, err, out>>

\* a loop test without the guard that keeps the bare start marker going
TerminalOnAnyBuffer(cur, buffer) == endswith(cur)

\* a loop test that takes only the bare marker for the end of a word
TerminalOnBareMarker(cur, buffer) == cur = <<MARKER>> /\ buffer /= <<MARKER>>

\* the test that ends the while loop
Terminal(cur, buffer) == endswith(cur) /\ buffer /= <<MARKER>>

\* the buffer as the model keeps it: whole up to MaxWalk characters, cut to
\* its first MaxWalk + 1 beyond; a walk whose buffer was cut goes on, but
\* the model does not follow it past the test that ends the loop
Kept(buffer) ==
    IF Len(buffer) <= MaxWalk THEN buffer ELSE SubSeq(buffer, 1, MaxWalk + 1)

Cut(buffer) == Len(buffer) > MaxWalk

\* one iteration of the while loop of _generate_word
WalkStep ==
    LET word1 == word \o current
        i == IndexOf(components.items, current)
        val == IF i = 0 THEN Empty("Counter") ELSE components.items[i].val
    IN /\ pc = "loop"
       /\ IF Terminal(current, word1)
          THEN /\ ~Cut(word)
               /\ Deliver(strip(word1, {MARKER}))
               /\ UNCHANGED <<drew, components>>
          ELSE IF i = 0 /\ components.kind /= "defaultdict"
          THEN Return("KeyError", <<>>) /\ UNCHANGED <<drew, components>>
          ELSE /\ components' =
                     IF i = 0
                     THEN [components EXCEPT !.items =
                              Append(@, [k |-> current, val |-> val])]
                     ELSE components
               /\ \E d \in Draws(val, weighted) :
                     \E r \in {_weighted_random_choice(val, weighted, d)} :
                        /\ drew' = (drew \/ Drawn(val, weighted))
                        /\ IF r.err /= "none" THEN Return(r.err, <<>>)
                           ELSE IF r.none THEN Return("TypeError", <<>>)
                           ELSE /\ word' = Kept(word1 \o r.val[1])
                                /\ current' = r.val[2]
                                /\ UNCHANGED <<pc, gen, err, out>>
       /\ UNCHANGED <<weighted, vowels, starts, op, call, saved, Harness, budget>>

(***************************************************************************)
(* The specification: any sequence of calls on one WordGenerator.          *)
(***************************************************************************)
Next ==
    \/ \E args \in SeedArgs, V \in VowelSets, append \in BOOLEAN :
          Seed(args, V, append)
    \/ Save
    \/ \E doc \in ExternalDocs \cup {saved} : Load(doc)
    \/ \E limit \in LimitArgs, n \in NArgs : Generate(limit, n)
    \/ Iter
    \/ \E limit \in LimitArgs : GenerateWord(limit)
    \/ Pull
    \/ Drop
    \/ BeginWord
    \/ WalkStep

Spec == Init /\ [][Next]_vars

(***************************************************************************)
(* SpecGen: a generator constructed from a language, then one call of      *)
(* generate, generate_word or __iter__ and the pulls of its sequence.      *)
(***************************************************************************)
InitGen ==
    /\ ConstructedFrom({a \in SeedArgs : ~a.dictionary.given}, VowelSets)
    /\ budget = 1

NextGen ==
    \/ \E limit \in LimitArgs, n \in NArgs : Generate(limit, n)
    \/ Iter
    \/ \E limit \in LimitArgs : GenerateWord(limit)
    \/ Pull
    \/ Drop
    \/ BeginWord
    \/ WalkStep

SpecGen == InitGen /\ [][NextGen]_vars

(***************************************************************************)
(* SpecSplit: split_word called on a generator whose vowels seed has set.  *)
(***************************************************************************)
SplitLetters == {"a", "b", "c"}

\* list(self.split_word(word))
SplitWord(w) ==
    /\ Callable
    /\ budget' = budget - 1
    /\ op' = "split_word"
    /\ call' = NoCall
    /\ word' = w
    /\ err' = IF vowels = {} THEN "AttributeError" ELSE "none"
    /\ triplets' = IF vowels = {} THEN <<>> ELSE split_word(w, vowels)
    /\ out' = <<>>
    /\ saved' = NoDoc
    /\ UNCHANGED <<weighted, vowels, components, starts, gen, pc, current,
                   drew, pick>>

InitSplit ==
    /\ ConstructedFrom({[dictionary |-> None, language |-> List(<< <<"b">> >>)]},
                       SUBSET SplitLetters)
    /\ budget = 1

NextSplit == \E w \in SeqsUpTo(SplitLetters, MaxWordLen) : SplitWord(w)

SpecSplit == InitSplit /\ [][NextSplit]_vars

(***************************************************************************)
(* SpecChoice: _weighted_random_choice called on the start table of a      *)
(* weighted generator that has loaded a document.                          *)
(***************************************************************************)
\* the i-th candidate key: "~", "~a", "~aa", ...
Candidate(i) == <<MARKER>> \o [j \in 1..(i - 1) |-> "a"]

\* start tables of up to MaxChoices candidates with counts 1..MaxWeight
StartTables ==
    {[kind |-> "object",
      items |-> [i \in 1..Len(cs) |-> [k |-> Candidate(i), c |-> cs[i]]]] :
        cs \in SeqsUpTo(1..MaxWeight, MaxChoices) \ {<<>>}}

\* self._weighted_random_choice(self.starts)
Choose ==
    /\ Callable
    /\ budget' = budget - 1
    /\ \E d \in Draws(starts, weighted) :
          \E r \in {_weighted_random_choice(starts, weighted, d)} :
             /\ pick' = d
             /\ drew' = Drawn(starts, weighted)
             /\ current' = r.val
             /\ err' = IF r.err = "none" /\ r.none THEN "None" ELSE r.err
    /\ op' = "_weighted_random_choice"
    /\ call' = NoCall
    /\ out' = <<>>
    /\ saved' = NoDoc
    /\ UNCHANGED <<weighted, vowels, components, starts, gen, pc, word, triplets>>

InitChoice ==
    /\ \E table \in StartTables :
          \E r \in {load([DocB EXCEPT !.starts = table], TRUE, Unset, Unset)} :
             /\ weighted = r.weighted
             /\ components = r.components
             /\ starts = r.starts
    /\ vowels = {}
    /\ call = NoCall
    /\ Constructed
    /\ budget = 1

NextChoice == Choose

SpecChoice == InitChoice /\ [][NextChoice]_vars

(***************************************************************************)
(* SpecSeed: one call of seed, on a generator that is unseeded or was       *)
(* constructed from one of ExtraCorpora.                                   *)
(***************************************************************************)
InitSeed ==
    /\ \/ Unseeded
       \/ ConstructedFrom({[dictionary |-> None, language |-> List(c)] :
                              c \in ExtraCorpora}, VowelSets)
    /\ budget = 1

NextSeed ==
    \E args \in SeedArgs, V \in VowelSets, append \in BOOLEAN :
       Seed(args, V, append)

SpecSeed == InitSeed /\ [][NextSeed]_vars

(***************************************************************************)
(* SpecWalk: a generator constructed from a language, iterated: each pull  *)
(* is one run of _generate_word.  Fairness is what fair random draws give: *)
(* a loop that keeps running keeps drawing, and a draw that can be made    *)
(* again and again, here one leading nearer to the end of a word, is made  *)
(* in the end.                                                             *)
(***************************************************************************)
\* corpora whose chain has a cycle through two keys:
\* "babaabab" gives a -> aa -> a, and a -> ~
WalkCorpora ==
    {<< <<"b", "a", "b", "a", "a", "b", "a", "b">> >>}

\* the keys from which the chain can reach a key that ends with the marker,
\* after S: one more value pair away
Near(S) ==
    S \cup {components.items[i].k :
               i \in {j \in 1..Len(components.items) :
                        \E v \in Keys(components.items[j].val.items) :
                           endswith(v[2]) \/ v[2] \in S}}

RECURSIVE Rank(_, _)
Rank(k, S) == IF k \in S \/ Near(S) = S THEN 0 ELSE 1 + Rank(k, Near(S))

\* the number of value pairs between key k and the end of a word
Dist(k) == IF endswith(k) THEN 0 ELSE 1 + Rank(k, Near({}))

\* an iteration of the loop that, d value pairs from the end of a word, draws
\* a value pair leading nearer to it
WalkNearer(d) ==
    WalkStep /\ pc' = "loop" /\ Dist(current) = d /\ Dist(current') < d

InitWalk ==
    /\ ConstructedFrom({a \in SeedArgs : ~a.dictionary.given}
                       \cup {[dictionary |-> None, language |-> List(c)] :
                                c \in WalkCorpora}, VowelSets)
    /\ budget = 1

NextWalk ==
    \/ Iter
    \/ Pull
    \/ BeginWord
    \/ WalkStep

FairDraws ==
    WF_vars(WalkStep) /\ \A d \in 1..MaxWordLen : SF_vars(WalkNearer(d))

SpecWalk == InitWalk /\ [][NextWalk]_vars /\ FairDraws

(***************************************************************************)
(* Properties.                                                             *)
(***************************************************************************)
\* the count a collection holds for k (0 when k is absent)
CountOf(coll, k) ==
    LET i == IndexOf(coll.items, k) IN IF i = 0 THEN 0 ELSE coll.items[i].c

\* the value collection of key (an empty one when key is absent)
ValueOf(co, key) ==
    LET i == IndexOf(co.items, key)
    IN IF i = 0 THEN Empty("dict") ELSE co.items[i].val

\* the object holds a model that a successful seed built
SeedBuilt ==
    /\ op \in {"__init__", "seed"}
    /\ err = "none"
    /\ components.kind = "dict"

\* C1: on a generator constructed with neither dictionary nor language, on
\* which the first method called is the one that pulls a word (generate_word,
\* or next on the sequence of generate or __iter__), the pull fails with
\* EmptyDictionaryError and no other error, before any random choice is made.
\* (A sequence of generate(limit, 0) pulls no word: islice stops it.)
C1_UnseededPullRaisesEmptyDictionaryError ==
    (/\ op \in {"generate_word", "next"}
     /\ pc = "idle"
     /\ budget = MaxCalls - 1
     /\ vowels = {}
     /\ components.kind = "unset"
     /\ starts.kind = "unset"
     /\ err /= "StopIteration")
    => (err = "EmptyDictionaryError" /\ ~drew)

\* the tables (st, co) hold the tables (stA, coA) merged with (stB, coB):
\* the union of the keys, start segments and value pairs and, when weighted,
\* the sum of the counts
Merged(w, stA, coA, stB, coB, st, co) ==
    /\ Keys(st.items) = Keys(stA.items) \cup Keys(stB.items)
    /\ Keys(co.items) = Keys(coA.items) \cup Keys(coB.items)
    /\ \A key \in Keys(co.items) :
          Keys(ValueOf(co, key).items) =
             Keys(ValueOf(coA, key).items) \cup Keys(ValueOf(coB, key).items)
    /\ w => /\ \A k \in Keys(st.items) :
                  CountOf(st, k) = CountOf(stA, k) + CountOf(stB, k)
            /\ \A key \in Keys(co.items) :
                  \A v \in Keys(ValueOf(co, key).items) :
                     CountOf(ValueOf(co, key), v) =
                        CountOf(ValueOf(coA, key), v) + CountOf(ValueOf(coB, key), v)

\* C2: on a generator holding the model of seed(language=A), for every
\* non-empty corpus B, seed(language=B, append=True) raises nothing and leaves
\* the tables of A merged with the tables B alone gives: counts summed in
\* weighted mode, collections united in unweighted mode.
C2_AppendMergesIntoModel ==
    (SeedBuilt /\ pc = "idle" /\ call.language /\ ~call.dictionary /\ ~call.append)
    => \A B \in Corpora \ {<<>>}, V \in VowelSets :
          LET alone == SeedLanguage(B, V, FALSE, weighted, Unset, Unset)
              r == seed(None, List(B), V, TRUE, weighted, starts, components)
          IN /\ r.err = "none"
             /\ Merged(weighted, starts, components, alone.starts,
                       alone.components, r.starts, r.components)

\* C3: on a model built by seed, weighted or not, save raises nothing, and
\* load of the document it wrote gives back the same components, the same
\* start table and the same weighted flag.
C3_SaveLoadRoundTrip ==
    [][(SeedBuilt /\ budget' = budget - 1 /\ op' = "save")
       => /\ err' = "none"
          /\ LET r == load(saved', ~weighted, Unset, Unset)
             IN /\ r.err = "none"
                /\ r.components = components
                /\ r.starts = starts
                /\ r.weighted = weighted]_vars

\* C4: on a generator constructed from a language whose model is not empty,
\* generate_word() with its default limit (None) raises nothing and returns
\* a word.
C4_GenerateWordDefaultLimitReturns ==
    (/\ op = "generate_word"
     /\ pc = "idle"
     /\ call.limit.type = "None"
     /\ components.kind = "dict"
     /\ components.items /= <<>>)
    => (err = "none" /\ Len(out) >= 1)

MarkerFree(w) == \A i \in 1..Len(w) : w[i] /= MARKER

\* a pull has just handed a word to the caller
Yielded == pc = "idle" /\ err = "none" /\ op \in {"next", "generate_word"}

\* C5: on a model seed built from marker-free words, a random walk that
\* reaches its end holds a buffer whose markers are its first and its last
\* character only, and returns a word of length >= 1 that holds no marker;
\* so does every word a pull hands to the caller.
C5_WalkReturnsNonEmptyMarkerFreeWord ==
    /\ (pc = "loop" /\ Terminal(current, word \o current))
       => LET buffer == word \o current
              w == strip(buffer, {MARKER})
          IN /\ Len(w) >= 1
             /\ MarkerFree(w)
             /\ buffer = <<MARKER>> \o w \o <<MARKER>>
    /\ Yielded => (Len(out) >= 1 /\ MarkerFree(out))

\* an unfiltered pull (__iter__) has handed over a word of two characters
C5_Witness ==
    /\ Yielded
    /\ op = "next"
    /\ gen.mode = "iter"
    /\ Len(out) = 2

\* the concatenation of key + middle over the triplets, closed by the last
\* trailing vowel run
RECURSIVE Joined(_)
Joined(ts) ==
    IF ts = <<>> THEN <<>>
    ELSE ts[1].key \o ts[1].value[1]
         \o (IF Len(ts) = 1 THEN ts[1].value[2] ELSE Joined(Tail(ts)))

\* each triplet's trailing vowel run is the next triplet's leading vowel run
Chained(ts) == \A i \in 1..(Len(ts) - 1) : ts[i].value[2] = ts[i + 1].key

\* C6: for every marker-free word w, the triplets split_word(w) yields chain,
\* and their concatenation, the synthetic markers removed, is w.
C6_SplitWordRoundTrip ==
    (op = "split_word" /\ err = "none")
    => (Chained(triplets) /\ strip(Joined(triplets), {MARKER}) = word)

\* C7: a load that fails leaves components, starts and weighted as they were
\* before the call.
C7_FailedLoadChangesNothing ==
    [][(budget' = budget - 1 /\ op' = "load" /\ err' /= "none")
       => (components' = components /\ starts' = starts /\ weighted' = weighted)]_vars

\* the shape of the tables is the one the weighted flag asks for: counted
\* collections when weighted, plain lists when not
ShapeMatchesFlag ==
    LET kind == IF weighted THEN "dict" ELSE "list"
    IN /\ starts.kind = kind
       /\ \A i \in 1..Len(components.items) : components.items[i].val.kind = kind

\* C8: after every load that raised nothing, the shape of starts and of the
\* value collections matches the weighted flag (load having rejected every
\* document whose flag and entries disagree).
C8_LoadedShapeMatchesFlag ==
    (op = "load" /\ err = "none") => ShapeMatchesFlag

\* a pull of the sequence of generate(limit, n), or generate_word(limit),
\* has just handed a word to the caller
YieldedByGenerate ==
    /\ Yielded
    /\ (op = "next" => gen.mode = "generate")

Counts(coll) == [i \in 1..Len(coll.items) |-> coll.items[i].c]

\* the sum of the first n of them
RECURSIVE Cumulative(_, _)
Cumulative(cs, n) == IF n = 0 THEN 0 ELSE cs[n] + Cumulative(cs, n - 1)

\* C10: in weighted mode, on a non-empty collection of positive counts and a
\* draw 0 <= pick/DrawScale < total, _weighted_random_choice returns the key
\* of the first candidate, in stored order, whose cumulative sum exceeds the
\* draw; with counts 2, 3, 5 the draws 1, 4 and 9 select the 1st, the 2nd and
\* the 3rd candidate.
C10_WeightedChoiceFirstExceeding ==
    (op = "_weighted_random_choice")
    => LET cs == Counts(starts)
       IN /\ err = "none"
          /\ \E i \in 1..Len(cs) :
                /\ current = starts.items[i].k
                /\ DrawScale * Cumulative(cs, i) > pick
                /\ \A j \in 1..(i - 1) : DrawScale * Cumulative(cs, j) <= pick
          /\ cs = <<2, 3, 5>>
             => /\ pick = DrawScale * 1 => current = Candidate(1)
                /\ pick = DrawScale * 4 => current = Candidate(2)
                /\ pick = DrawScale * 9 => current = Candidate(3)

\* counts 2, 3, 5 and the draw 9: the third candidate has been returned
C10_Witness ==
    /\ op = "_weighted_random_choice"
    /\ Counts(starts) = <<2, 3, 5>>
    /\ pick = DrawScale * 9
    /\ current = Candidate(3)

\* C11: seed raises ValueError exactly when it is not given exactly one of
\* dictionary and language (both given, or neither), whatever the one source
\* given holds, an empty word list included.
C11_ValueErrorIffNotExactlyOneSource ==
    (op = "seed" /\ pc = "idle")
    => ((err = "ValueError") <=> (call.dictionary = call.language))

\* the triplets of the lower-cased, trimmed words of a corpus, in order
RECURSIVE TripletsOf(_, _)
TripletsOf(A, V) ==
    IF A = <<>> THEN <<>>
    ELSE split_word(lower(strip(A[1], {" "})), V) \o TripletsOf(Tail(A), V)

\* how many of the triplets have key k and value pair v
Occurrences(ts, k, v) ==
    Cardinality({i \in 1..Len(ts) : ts[i].key = k /\ ts[i].value = v})

\* how many of the triplets have key k
KeyOccurrences(ts, k) == Cardinality({i \in 1..Len(ts) : ts[i].key = k})

\* how many words of the corpus yield a triplet
Yielding(A, V) ==
    Cardinality({i \in 1..Len(A) :
                    split_word(lower(strip(A[i], {" "})), V) /= <<>>})

\* no key occurs twice in the items
Distinct(items) ==
    \A i, j \in 1..Len(items) : items[i].k = items[j].k => i = j

\* seed(language=A), without append, has just built the tables
SeededFromLanguage ==
    /\ op \in {"__init__", "seed"}
    /\ pc = "idle"
    /\ err = "none"
    /\ call.language /\ ~call.dictionary /\ ~call.append

\* C12: after seed(language=A) in weighted mode, without append,
\* components[k][v] is the number of triplets (k, v) of the lower-cased,
\* trimmed words of A and starts[k] the number of triplets whose key k begins
\* with the marker (one per word that yields a triplet); there are no other
\* entries, every key of starts begins with the marker, and no value
\* collection is empty.
C12_WeightedCountsAreTripletCounts ==
    (SeededFromLanguage /\ weighted)
    => LET ts == TripletsOf(call.words, vowels)
       IN /\ components.kind = "dict" /\ starts.kind = "dict"
          /\ Distinct(components.items) /\ Distinct(starts.items)
          /\ \A i \in 1..Len(components.items) :
                LET e == components.items[i]
                IN /\ e.val.kind = "dict"
                   /\ e.val.items /= <<>>
                   /\ Distinct(e.val.items)
                   /\ \A j \in 1..Len(e.val.items) :
                         /\ e.val.items[j].c >= 1
                         /\ e.val.items[j].c = Occurrences(ts, e.k, e.val.items[j].k)
          /\ \A i \in 1..Len(ts) :
                /\ CountOf(ValueOf(components, ts[i].key), ts[i].value) >= 1
                /\ startswith(ts[i].key) => CountOf(starts, ts[i].key) >= 1
          /\ \A i \in 1..Len(starts.items) :
                /\ startswith(starts.items[i].k)
                /\ starts.items[i].c = KeyOccurrences(ts, starts.items[i].k)
          /\ Total(starts.items) = Yielding(call.words, vowels)

\* a weighted seed of a corpus of two words has counted a value pair twice
C12_Witness ==
    /\ SeededFromLanguage /\ weighted
    /\ op = "seed"
    /\ Len(call.words) = 2
    /\ \E i \in 1..Len(components.items) :
          \E j \in 1..Len(components.items[i].val.items) :
             components.items[i].val.items[j].c = 2

\* C13: on any generator, seed(dictionary=D, vowels=V, append=a) leaves the
\* state that seed(language=D, vowels=V, append=a) leaves: the same vowels,
\* the same tables, the same outcome.
C13_DictionarySeedsLikeLanguage ==
    (pc = "idle" /\ ~gen.active)
    => \A D \in Corpora \ {<<>>}, V \in VowelSets, a \in BOOLEAN :
          seed(List(D), None, V, a, weighted, starts, components)
             = seed(None, List(D), V, a, weighted, starts, components)

\* the sequence of generate(limit, n), n an integer, is live on a generator
\* whose seeded model is not empty
CountedSequence ==
    /\ gen.active /\ gen.mode = "generate" /\ gen.bounded
    /\ components.kind = "dict" /\ components.items /= <<>>

\* C14: on a seeded, non-empty model, for any limit and any count n, the
\* sequence of generate(limit, n) yields exactly n words and then ends: no
\* walk begins once n words were yielded, and every pull that returns while
\* words remain returns a word (it does not end the sequence with an error)
\* and counts one word toward n; discarded words count nothing.
C14_GenerateYieldsExactlyN ==
    [][CountedSequence
       => /\ (pc = "idle" /\ gen.remaining = 0) => pc' = "idle"
          /\ (pc /= "idle" /\ pc' /= "idle") => gen' = gen
          /\ (pc /= "idle" /\ pc' = "idle")
             => /\ err' = "none"
                /\ gen.remaining >= 1
                /\ gen' = [gen EXCEPT !.remaining = @ - 1]]_vars

\* a seed that took words from exactly one source has just built the tables
SeededFromOneSource ==
    /\ op \in {"__init__", "seed"}
    /\ pc = "idle"
    /\ err = "none"
    /\ call.language /= call.dictionary

\* choosing from a list takes the element at the position drawn, and every
\* position can be drawn: a uniform pick
UniformPick(coll) ==
    /\ Draws(coll, FALSE) = 1..Len(coll.items)
    /\ \A d \in 1..Len(coll.items) :
          _weighted_random_choice(coll, FALSE, d)
             = [err |-> "none", none |-> FALSE, val |-> coll.items[d].k]

\* C15: after a seed with weighted = False, starts is a list holding each
\* distinct start key once, and every value collection is a list holding each
\* distinct value pair seen after its key once, whatever the training
\* frequencies: the keys and value pairs are those of the triplets of the
\* corpus, and those of the weighted model of the same corpus; a choice from
\* a non-empty one of these lists is a uniform pick.
C15_UnweightedHoldsEachOnce ==
    (SeededFromOneSource /\ ~weighted)
    => LET ts == TripletsOf(call.words, vowels)
           m == SeedLanguage(call.words, vowels \ {MARKER}, FALSE, TRUE,
                             Unset, Unset)
       IN /\ starts.kind = "list" /\ components.kind = "dict"
          /\ Distinct(starts.items) /\ Distinct(components.items)
          /\ Keys(starts.items)
                = {ts[i].key : i \in {j \in 1..Len(ts) : startswith(ts[j].key)}}
          /\ Keys(starts.items) = Keys(m.starts.items)
          /\ Keys(components.items) = {ts[i].key : i \in 1..Len(ts)}
          /\ Keys(components.items) = Keys(m.components.items)
          /\ starts.items /= <<>> => UniformPick(starts)
          /\ \A i \in 1..Len(components.items) :
                LET e == components.items[i]
                IN /\ e.val.kind = "list"
                   /\ Distinct(e.val.items)
                   /\ Keys(e.val.items)
                         = {ts[j].value : j \in {n \in 1..Len(ts) : ts[n].key = e.k}}
                   /\ Keys(e.val.items) = Keys(ValueOf(m.components, e.k).items)
                   /\ UniformPick(e.val)

\* an unweighted seed of a corpus that repeats a word holds its start key and
\* its value pair once
C15_Witness ==
    /\ SeededFromOneSource /\ ~weighted
    /\ op = "seed"
    /\ call.words = << <<"a", "b">>, <<"a", "b">> >>
    /\ Len(starts.items) = 1
    /\ Len(components.items) = 1
    /\ Len(components.items[1].val.items) = 1

\* C16: split_word yields at least one triplet for every non-empty
\* marker-free word, and for a word made of vowels only (as "aa" with the
\* vowel a) a triplet whose middle is the empty string.
C16_SplitWordYieldsATriplet ==
    (op = "split_word" /\ err = "none" /\ word /= <<>>)
    => /\ triplets /= <<>>
       /\ (\A i \in 1..Len(word) : word[i] \in vowels)
          => \E i \in 1..Len(triplets) : triplets[i].value[1] = <<>>

\* the value pairs held under any key
ValuePairs ==
    UNION {Keys(components.items[i].val.items) : i \in 1..Len(components.items)}

\* the key segments a random walk can look up in components: the start it
\* draws, and every next key it moves to without stopping
LookedUp ==
    Keys(starts.items) \cup {v[2] : v \in {p \in ValuePairs : ~endswith(p[2])}}

\* seed has run and left its tables
AfterSeed ==
    /\ op \in {"__init__", "seed"}
    /\ pc = "idle"
    /\ components.kind /= "unset"
    /\ starts.kind /= "unset"

\* C17: after any seed of marker-free words, every key of starts is a key of
\* components, and the next key of every value pair ends with the marker or
\* is a key of components; so every key a random walk looks up is found.
C17_ChainIsClosed ==
    AfterSeed
    => /\ \A k \in Keys(starts.items) : k \in Keys(components.items)
       /\ \A v \in ValuePairs : endswith(v[2]) \/ v[2] \in Keys(components.items)
       /\ \A k \in LookedUp : IndexOf(components.items, k) /= 0

\* seed has built a model in which a value pair leads on to another key
C17_Witness ==
    /\ AfterSeed
    /\ op = "seed"
    /\ err = "none"
    /\ \E v \in ValuePairs : ~endswith(v[2]) /\ v[2] \in Keys(components.items)

\* the next keys of the value pairs held under key k
Successors(k) == {v[2] : v \in Keys(ValueOf(components, k).items)}

\* the keys from which a value pair whose next key ends with the marker can
\* be reached in finitely many transitions
RECURSIVE FinishingFrom(_)
FinishingFrom(S) ==
    LET T == S \cup {k \in Keys(components.items) :
                        \E n \in Successors(k) : endswith(n) \/ n \in S}
    IN IF T = S THEN S ELSE FinishingFrom(T)

Finishing == FinishingFrom({})

\* the keys a random walk can reach: a start, then any next key it moves to
RECURSIVE ReachFrom(_)
ReachFrom(S) ==
    LET T == S \cup {n \in UNION {Successors(k) : k \in S} : ~endswith(n)}
    IN IF T = S THEN S ELSE ReachFrom(T)

WalkReach == ReachFrom(Keys(starts.items))

\* the walk has met the test that ends the loop with a buffer past MaxWalk
PastBound == pc = "loop" /\ Cut(word) /\ Terminal(current, word \o current)

\* C18: on a model built by seed, from every key a random walk can reach, a
\* value pair whose next key ends with the marker is reachable in finitely
\* many transitions; and under fair draws every run of the loop of
\* _generate_word meets the terminal condition and returns a word (the
\* model follows the return of a walk up to a buffer of MaxWalk characters).
C18_WalkTerminates ==
    /\ [](WalkReach \subseteq Finishing)
    /\ (pc = "loop") ~> ((pc = "idle" /\ err = "none" /\ Len(out) >= 1) \/ PastBound)

\* a walk on a model with a cycle is back at a key it has left before
C18_Witness ==
    /\ pc = "loop"
    /\ word = <<MARKER, "b", "a", "b">>
    /\ current = <<"a">>
    /\ <<"a">> \in Successors(<<"a">>)


\* C19: on a generator that holds a seeded model, a seed call without append
\* that is given both sources or neither and raises ValueError leaves
\* components and starts as they were before it.
C19_FailedSeedKeepsModel ==
    [][(/\ components.items /= <<>>
        /\ budget' = budget - 1
        /\ op' = "seed"
        /\ err' = "ValueError"
        /\ ~call'.append
        /\ call'.dictionary = call'.language)
       => (components' = components /\ starts' = starts)]_vars
=============================================================================
